---- MODULE Spec2Model ----
(***************************************************************************)
(* Model of src/advanced_lane_lines.py: the per-frame lane pipeline        *)
(* (pipeline), the two Line trackers it reads and writes, the threshold    *)
(* combination, the sliding-window and prior-guided searches, the          *)
(* polynomial fit and the curvature computation.                           *)
(*                                                                         *)
(* A frame is described by the bands of pixels it shows; a pixel is the    *)
(* pair <<y, x>> (row, column), as numpy's nonzero() returns it.  Real     *)
(* numbers are exact rationals <<n, d>>; a fit is the coefficient triple   *)
(* (a, b, c) of x = a*y^2 + b*y + c over one common denominator d.         *)
(***************************************************************************)
EXTENDS Integers, Sequences, FiniteSets, TLC

\* ------------------------------------------------------------------ bounds
\* Size of the frames of the session (image.shape of the input video).
FrameHeight == 18
FrameWidth == 1280

\* ------------------------------------------------------- program constants
nwindows == 9
margin == 100
minpix == 50
search_margin == 100

\* ---------------------------------------------------------------- numbers
Abs(n) == IF n < 0 THEN -n ELSE n

RECURSIVE Gcd(_, _)
Gcd(m, n) == IF n = 0 THEN Abs(m) ELSE Gcd(n, m % n)

Min(S) == CHOOSE m \in S : \A n \in S : m <= n
Max(S) == CHOOSE m \in S : \A n \in S : n <= m

\* Rationals: <<n, d>> with d > 0, in lowest terms.
Rat(n, d) ==
  LET s == IF d < 0 THEN -1 ELSE 1
      g == Gcd(n, d)
  IN <<(s * n) \div g, (s * d) \div g>>
RatAdd(p, q) ==
  LET l == (p[2] \div Gcd(p[2], q[2])) * q[2]
  IN Rat(p[1] * (l \div p[2]) + q[1] * (l \div q[2]), l)
RatSub(p, q) == RatAdd(p, <<-q[1], q[2]>>)
RatMul(p, q) ==
  LET g1 == Gcd(p[1], q[2])
      g2 == Gcd(q[1], p[2])
  IN Rat((p[1] \div g1) * (q[1] \div g2), (p[2] \div g2) * (q[2] \div g1))
RatDiv(p, q) == RatMul(p, Rat(q[2], q[1]))
RatInt(n) == <<n, 1>>
RatAbs(p) == <<Abs(p[1]), p[2]>>

\* ------------------------------------------------------------------ frames
\* The six binary masks of a band, in the order combined_thresh computes
\* them: gradx, grady, mag_binary, dir_binary, h_binary, s_binary.
MaskSets == [1..6 -> {0, 1}]
ColorMasks == <<0, 0, 0, 0, 1, 1>>

\* A band of w pixels per row over the rows ylo..yhi, whose first column at
\* row y is x0 + lin*y + quad*(y*(y-1)/2).
Band(x0, w, ylo, yhi, lin, quad, masks) ==
  [x0 |-> x0, w |-> w, ylo |-> ylo, yhi |-> yhi, lin |-> lin, quad |-> quad,
   masks |-> masks]

BandStart(bd, y) == bd.x0 + bd.lin * y + bd.quad * ((y * (y - 1)) \div 2)

BandPixels(bd) ==
  UNION {{<<y, x>> : x \in BandStart(bd, y)..(BandStart(bd, y) + bd.w - 1)} :
         y \in bd.ylo..bd.yhi}

Covers(bd, px) ==
  /\ px[1] \in bd.ylo..bd.yhi
  /\ px[2] \in BandStart(bd, px[1])..(BandStart(bd, px[1]) + bd.w - 1)

Bottom == FrameHeight - 1
MidRow == FrameHeight \div 2

LeftBands ==
  [none    |-> {},
   lane    |-> {Band(340, 20, 0, Bottom, 0, 0, ColorMasks)},
   line    |-> {Band(300, 5, 0, Bottom, 0, 0, ColorMasks)},
   wide    |-> {Band(300, 26, 0, Bottom, 2, 0, ColorMasks)},
   fifty   |-> {Band(300, 25, 0, Bottom, 2, 0, ColorMasks)},
   curve   |-> {Band(340, 21, 0, Bottom, -8, 1, ColorMasks)},
   onerow  |-> {Band(300, 5, MidRow, MidRow, 0, 0, ColorMasks)},
   far     |-> {Band(100, 5, 0, Bottom, 0, 0, ColorMasks)}]

RightBands ==
  [none    |-> {},
   lane    |-> {Band(940, 20, 0, Bottom, 0, 0, ColorMasks)},
   wide    |-> {Band(900, 26, 0, Bottom, 2, 0, ColorMasks)},
   curve   |-> {Band(940, 21, 0, Bottom, -8, 1, ColorMasks)},
   onerow  |-> {Band(940, 5, MidRow, MidRow, 0, 0, ColorMasks)}]

Image(bands) == [h |-> FrameHeight, w |-> FrameWidth, bands |-> bands]

\* Frames that differ in where the lanes are.
GeometryFrames ==
  {Image(LeftBands[l] \cup RightBands[r]) :
     l \in DOMAIN LeftBands, r \in DOMAIN RightBands}

\* A frame with the two lanes and, away from them in the top rows, one
\* pixel for every combination of the six masks.
MaskChart ==
  {Band(1200 + 2 * (m[1] + 2 * m[2] + 4 * m[3]), 1,
        m[4] + 2 * m[5] + 4 * m[6], m[4] + 2 * m[5] + 4 * m[6], 0, 0, m) :
     m \in MaskSets}

ChartFrame == Image(LeftBands.lane \cup RightBands.lane \cup MaskChart)

\* A frame whose left lane is two overlapping bands, one in the hue range
\* only and one in the saturation range only.
OverlapFrame ==
  Image({Band(330, 20, 0, Bottom, 0, 0, <<0, 0, 0, 0, 1, 0>>),
         Band(340, 20, 0, Bottom, 0, 0, <<0, 0, 0, 0, 0, 1>>)}
        \cup RightBands.lane)

\* A frame half as wide as the frames of the video, with a lane in each half.
HalfWidthFrame ==
  [h |-> FrameHeight, w |-> FrameWidth \div 2,
   bands |-> {Band(170, 20, 0, Bottom, 0, 0, ColorMasks),
              Band(470, 20, 0, Bottom, 0, 0, ColorMasks)}]

Frames == GeometryFrames \cup {ChartFrame, OverlapFrame, HalfWidthFrame}

NoImage == [h |-> 0, w |-> 0, bands |-> {}]

\* -------------------------------------------------------------- thresholds
\* Value at pixel px of the k-th binary mask of the image (the outputs of
\* abs_sobel_thresh x/y, mag_thresh, dir_thresh, hue_thresh and
\* saturation_thresh): 1 where a band with that mask set covers the pixel.
MaskAt(img, k, px) ==
  IF \E bd \in img.bands : Covers(bd, px) /\ bd.masks[k] = 1 THEN 1 ELSE 0

\* Line 146, as Python parses it: & binds tighter than |.
CombineWrongPrecedence(gradx, grady, mag_binary, dir_binary, h_binary, s_binary) ==
  IF /\ gradx = 1 /\ grady = 1 /\ mag_binary = 1
     /\ (dir_binary = 1 \/ h_binary = 1)
     /\ s_binary = 1
  THEN 1 ELSE 0

Combine(gradx, grady, mag_binary, dir_binary, h_binary, s_binary) ==
  IF \/ (gradx = 1 /\ grady = 1 /\ mag_binary = 1 /\ dir_binary = 1)
     \/ (h_binary = 1 /\ s_binary = 1)
  THEN 1 ELSE 0

CombinedAt(img, px) ==
  Combine(MaskAt(img, 1, px), MaskAt(img, 2, px), MaskAt(img, 3, px),
          MaskAt(img, 4, px), MaskAt(img, 5, px), MaskAt(img, 6, px))

\* A binary frame: its shape and the set of its nonzero pixels.
Binary(h, w, nz) == [h |-> h, w |-> w, nonzero |-> nz]
NoBinary == Binary(0, 0, {})

combined_thresh(img) ==
  Binary(img.h, img.w,
         {px \in UNION {BandPixels(bd) : bd \in img.bands} :
            CombinedAt(img, px) = 1})

\* warpPerspective with dsize = image_size: a frame of the same shape.  The
\* bands of an image are given in top-down coordinates, so the resampling
\* keeps the pixel positions.
perspective_transform(bin) == Binary(bin.h, bin.w, bin.nonzero)

\* ------------------------------------------------------ sliding-window search
BottomHalf(bw) == {px \in bw.nonzero : px[1] >= bw.h \div 2}

\* histogram[c]: np.sum over the rows of the bottom half, column c.
ColumnSum(pixels, c) == Cardinality({px \in pixels : px[2] = c})

\* np.argmax(histogram[lo:hi]): the first index of the slice that attains
\* the maximum.  Only a column that holds a pixel has a sum above 0, so the
\* maximum is looked for among those; a slice of zeros gives index 0.
ArgmaxLast(pixels, lo, hi) ==
  LET slice == {px \in pixels : px[2] >= lo /\ px[2] < hi}
      cols == {px[2] : px \in slice}
      top == Max({ColumnSum(slice, c) : c \in cols})
  IN IF cols = {} THEN hi - 1 - lo
     ELSE Max({c \in cols : ColumnSum(slice, c) = top}) - lo

Argmax(pixels, lo, hi) ==
  LET slice == {px \in pixels : px[2] >= lo /\ px[2] < hi}
      cols == {px[2] : px \in slice}
      top == Max({ColumnSum(slice, c) : c \in cols})
  IN IF cols = {} THEN 0
     ELSE Min({c \in cols : ColumnSum(slice, c) = top}) - lo

midpoint(bw) == bw.w \div 2
leftx_base(bw) == Argmax(BottomHalf(bw), 0, midpoint(bw))
rightx_base(bw) == Argmax(BottomHalf(bw), midpoint(bw), bw.w) + midpoint(bw)

window_height(bw) == bw.h \div nwindows
win_y_low(bw, window) == bw.h - (window + 1) * window_height(bw)
win_y_high(bw, window) == bw.h - window * window_height(bw)

\* good_left_inds / good_right_inds of one window centred at x_current.
GoodInds(bw, window, x_current) ==
  {px \in bw.nonzero :
     /\ px[1] >= win_y_low(bw, window)
     /\ px[1] < win_y_high(bw, window)
     /\ px[2] >= x_current - margin
     /\ px[2] < x_current + margin}

RECURSIVE SumX(_)
SumX(pixels) ==
  IF pixels = {} THEN 0
  ELSE LET px == CHOOSE px \in pixels : TRUE IN px[2] + SumX(pixels \ {px})

\* np.int(np.mean(nonzerox[good_inds])): columns are not negative, so the
\* truncation is the integer quotient.
MeanX(pixels) == SumX(pixels) \div Cardinality(pixels)

RecenterAtLeast(good, x_current) ==
  IF Cardinality(good) >= minpix THEN MeanX(good) ELSE x_current

\* Lines 239-242: the centre of the next window.
Recenter(good, x_current) ==
  IF Cardinality(good) > minpix THEN MeanX(good) ELSE x_current

RECURSIVE SlideWindows(_, _, _, _)
\* The loop of lines 211-242 from window on: one record per window with the
\* centres it was drawn around and the pixels it collected.
SlideWindows(bw, window, leftx_current, rightx_current) ==
  IF window >= nwindows THEN <<>>
  ELSE LET good_left_inds == GoodInds(bw, window, leftx_current)
           good_right_inds == GoodInds(bw, window, rightx_current)
       IN <<[leftx_current |-> leftx_current,
             rightx_current |-> rightx_current,
             good_left_inds |-> good_left_inds,
             good_right_inds |-> good_right_inds]>>
          \o SlideWindows(bw, window + 1,
                          Recenter(good_left_inds, leftx_current),
                          Recenter(good_right_inds, rightx_current))

find_lane_pixels(bw) ==
  LET windows == SlideWindows(bw, 0, leftx_base(bw), rightx_base(bw))
  IN [leftx_base |-> leftx_base(bw),
      rightx_base |-> rightx_base(bw),
      windows |-> windows,
      left |-> UNION {windows[i].good_left_inds : i \in DOMAIN windows},
      right |-> UNION {windows[i].good_right_inds : i \in DOMAIN windows}]

\* ------------------------------------------------------------ polynomial fit
\* Coefficients a/d, b/d, c/d; d = 0 stands for None (no fit).
NoFit == [a |-> 0, b |-> 0, c |-> 0, d |-> 0]

Lcm(m, n) == (m \div Gcd(m, n)) * n

MkFit(ra, rb, rc) ==
  LET d == Lcm(Lcm(ra[2], rb[2]), rc[2])
  IN [a |-> ra[1] * (d \div ra[2]), b |-> rb[1] * (d \div rb[2]),
      c |-> rc[1] * (d \div rc[2]), d |-> d]

\* fit[0]*y**2 + fit[1]*y + fit[2]
Eval(fit, y) == Rat(fit.a * y * y + fit.b * y + fit.c, fit.d)

Rows(pixels) == {px[1] : px \in pixels}
RowOf(pixels, y) == {px \in pixels : px[1] = y}
RowMean(pixels, y) ==
  Rat(SumX(RowOf(pixels, y)), Cardinality(RowOf(pixels, y)))

\* The parabola through three points (y, m), m rational.
Through(y1, m1, y2, m2, y3, m3) ==
  LET s12 == RatDiv(RatSub(m2, m1), RatInt(y2 - y1))
      s13 == RatDiv(RatSub(m3, m1), RatInt(y3 - y1))
      ra == RatDiv(RatSub(s13, s12), RatInt(y3 - y2))
      rb == RatSub(s12, RatMul(ra, RatInt(y1 + y2)))
      rc == RatSub(RatSub(m1, RatMul(ra, RatInt(y1 * y1))),
                   RatMul(rb, RatInt(y1)))
  IN MkFit(ra, rb, rc)

\* np.polyfit(x = ys, y = xs, deg = 2) on the pixels of one lane.
\*   no pixel: lstsq is never reached, TypeError("expected non-empty vector").
\*   three rows or more: the least-squares parabola.  The residuals of a
\*     row cancel around the row's mean, so when the row means lie on one
\*     parabola that parabola is the least-squares fit.
\*   one row y1: the system has rank 1; polyfit scales the columns of the
\*     Vandermonde matrix to unit norm and lstsq returns the minimum-norm
\*     solution, which is (m/(3*y1^2), m/(3*y1), m/3) for the row mean m,
\*     with a RankWarning and no exception.
\*   any other pixel set (row means off a parabola, two rows, the single
\*     row 0) has a fit this arithmetic cannot state exactly: kind
\*     "unmodelled".  A frame whose search meets one is left unexplored
\*     (AfterSearch), so no outcome is made up for it.
polyfit(pixels) ==
  LET rows == Rows(pixels)
      lo == Min(rows)
      hi == Max(rows)
      mid == Min(rows \ {lo, hi})
      fit == Through(lo, RowMean(pixels, lo), mid, RowMean(pixels, mid),
                     hi, RowMean(pixels, hi))
      m == RowMean(pixels, lo)
  IN IF pixels = {}
       THEN [kind |-> "TypeError", fit |-> NoFit]
     ELSE IF Cardinality(rows) >= 3
       THEN IF \A y \in rows : RowMean(pixels, y) = Eval(fit, y)
              THEN [kind |-> "fit", fit |-> fit]
              ELSE [kind |-> "unmodelled", fit |-> NoFit]
     ELSE IF Cardinality(rows) = 1 /\ lo > 0
       THEN [kind |-> "rank_deficient",
             fit |-> MkFit(RatDiv(m, RatInt(3 * lo * lo)),
                           RatDiv(m, RatInt(3 * lo)),
                           RatDiv(m, RatInt(3)))]
     ELSE [kind |-> "unmodelled", fit |-> NoFit]

Raised(res) == res.kind \notin {"fit", "rank_deficient"}

\* The kind of the two polyfit calls of a search, as the exception the
\* search leaves with ("" when both return).
SearchRaised(left, right) ==
  IF left.kind = "unmodelled" \/ (~Raised(left) /\ right.kind = "unmodelled")
    THEN "unmodelled"
  ELSE IF Raised(left) THEN left.kind
  ELSE IF Raised(right) THEN right.kind
  ELSE ""

\* Lines 260-285.  The left fit is computed first; an exception of either
\* polyfit leaves the function before anything is returned.
fit_polynomial(bw) ==
  LET lanes == find_lane_pixels(bw)
      left == polyfit(lanes.left)
      right == polyfit(lanes.right)
  IN [raised |-> SearchRaised(left, right),
      left_fit |-> IF Raised(left) \/ Raised(right) THEN NoFit ELSE left.fit,
      right_fit |-> IF Raised(left) \/ Raised(right) THEN NoFit ELSE right.fit,
      left |-> lanes.left, right |-> lanes.right,
      leftx_base |-> lanes.leftx_base, rightx_base |-> lanes.rightx_base,
      windows |-> lanes.windows]

\* ------------------------------------------------------- prior-guided search
\* Lines 317-322: x > fit(y) - margin and x < fit(y) + margin.
AroundPoly(bw, fit) ==
  {px \in bw.nonzero :
     /\ px[2] * fit.d > fit.a * px[1] * px[1] + fit.b * px[1] + fit.c
                        - search_margin * fit.d
     /\ px[2] * fit.d < fit.a * px[1] * px[1] + fit.b * px[1] + fit.c
                        + search_margin * fit.d}

\* Lines 302-361.  Indexing a previous fit that is None raises TypeError.
search_around_poly(bw, left_fit, right_fit) ==
  LET none == left_fit.d = 0 \/ right_fit.d = 0
      leftpx == IF none THEN {} ELSE AroundPoly(bw, left_fit)
      rightpx == IF none THEN {} ELSE AroundPoly(bw, right_fit)
      left == polyfit(leftpx)
      right == polyfit(rightpx)
  IN [raised |-> IF none THEN "TypeError" ELSE SearchRaised(left, right),
      left_fit |-> IF none \/ Raised(left) \/ Raised(right) THEN NoFit ELSE left.fit,
      right_fit |-> IF none \/ Raised(left) \/ Raised(right) THEN NoFit ELSE right.fit,
      left |-> leftpx, right |-> rightpx,
      leftx_base |-> 0, rightx_base |-> 0, windows |-> <<>>]

\* The search around the previous fits raises for want of a fit.
AroundFails(bw, fit_left, fit_right) ==
  search_around_poly(bw, fit_left, fit_right).raised = "TypeError"

\* -------------------------------------------------------------------- metrics
\* 30/720 and 3.7/700 metres per pixel.
ym_per_pix == Rat(30, 720)
xm_per_pix == Rat(37, 7000)

\* numpy's float division n / d for n >= 0, d >= 0: a zero divisor gives inf
\* (nan for 0/0) and a RuntimeWarning, never an exception.
FloatQuotient(n, d) ==
  IF d[1] = 0 THEN (IF n[1] = 0 THEN "nan" ELSE "inf") ELSE "finite"

\* A radius (1 + slope^2)^1.5 / den, kept as its slope and divisor.
Radius(slope, den) ==
  [kind |-> FloatQuotient(RatAdd(RatInt(1), RatInt(Abs(slope[1]))), den),
   slope |-> slope, den |-> den]
NoRadius == [kind |-> "none", slope |-> RatInt(0), den |-> RatInt(0)]

\* Lines 435-437: the divisor is np.abs(2 * c).
get_curvature_radius(line, y) ==
  Radius(Rat(2 * line.a * y + line.b, line.d),
         RatAbs(Rat(2 * line.c, line.d)))

\* round(v, 2) in hundredths: the nearest integer to 100*v, a tie to even.
Round2(v) ==
  LET n == 100 * v[1]
      d == v[2]
      q == n \div d
      r == n % d
  IN IF 2 * r < d THEN q
     ELSE IF 2 * r > d THEN q + 1
     ELSE IF q % 2 = 0 THEN q ELSE q + 1

\* Lines 451-452: the fit is sampled at ys = 0..height-1 and fitted again in
\* metres.  The samples lie on one parabola, so the least-squares fit is that
\* parabola in metres: leading coefficient a*xm/ym^2, linear b*xm/ym.
MetricFit(fit) ==
  [a |-> RatDiv(RatMul(Rat(fit.a, fit.d), xm_per_pix),
                RatMul(ym_per_pix, ym_per_pix)),
   b |-> RatDiv(RatMul(Rat(fit.b, fit.d), xm_per_pix), ym_per_pix)]

\* Lines 459-460.
Curverad(fit, height) ==
  LET cr == MetricFit(fit)
      y_eval == height - 1
  IN Radius(RatAdd(RatMul(RatMul(RatInt(2 * y_eval), cr.a), ym_per_pix), cr.b),
            RatAbs(RatMul(RatInt(2), cr.a)))

\* Lines 441-468.
curvature_in_meters(bw, left_fit, right_fit) ==
  LET position == bw.w \div 2
      left_intercept == Eval(left_fit, bw.h)
      right_intercept == Eval(right_fit, bw.h)
      center == RatDiv(RatAdd(left_intercept, right_intercept), RatInt(2))
  IN [left_curverad |-> Curverad(left_fit, bw.h),
      right_curverad |-> Curverad(right_fit, bw.h),
      dist_from_center |->
        Round2(RatMul(RatSub(RatInt(position), center), xm_per_pix))]

NoMetrics ==
  [left_curverad |-> NoRadius, right_curverad |-> NoRadius,
   dist_from_center |-> 0]

\* ---------------------------------------------------------------------- state
VARIABLES
  left_line,       \* Line(): [found, previous_fit]
  right_line,
  pc,              \* "idle" between frames, else the stage pipeline() is at
  image,           \* the frame pipeline() was called with
  entry,           \* left_line and right_line as they were at the call
  thresholded,     \* combined_thresh(undistorted)
  binary_warped,   \* perspective_transform(thresholded)
  lanes_detected,  \* what the lane search of this frame did
  left_fit,        \* the fits the lane search returned
  right_fit,
  metrics,         \* what curvature_in_meters returned
  outcome          \* how the last call of pipeline() ended

vars ==
  <<left_line, right_line, pc, image, entry, thresholded, binary_warped,
    lanes_detected, left_fit, right_fit, metrics, outcome>>

\* Lines 11-18.
Line == [found |-> FALSE, previous_fit |-> NoFit]

\* status: "none" before the first call, "running", "ok" (returned) or
\* "raised", then with the stage that raised and the exception.
Outcome(status, stage, kind) ==
  [status |-> status, stage |-> stage, kind |-> kind]

Entry(left, right) == [left |-> left, right |-> right]

NoSearch ==
  [strategy |-> "none", raised |-> "", left_fit |-> NoFit,
   right_fit |-> NoFit, left |-> {}, right |-> {},
   leftx_base |-> 0, rightx_base |-> 0, centres |-> <<>>]

Searched(strategy, res) ==
  [strategy |-> strategy, raised |-> res.raised, left_fit |-> res.left_fit,
   right_fit |-> res.right_fit, left |-> res.left, right |-> res.right,
   leftx_base |-> res.leftx_base, rightx_base |-> res.rightx_base,
   centres |-> [i \in DOMAIN res.windows |->
                  <<res.windows[i].leftx_current,
                    res.windows[i].rightx_current>>]]

\* The statements of pipeline() in the order they run (lines 488-516).
StageOrderSaveFirst ==
  <<"threshold", "warp", "fit", "save", "draw", "curvature", "print",
    "return">>

StageOrder ==
  <<"threshold", "warp", "fit", "draw", "curvature", "print", "save",
    "return">>

NextStage(stage) ==
  LET i == CHOOSE i \in DOMAIN StageOrder : StageOrder[i] = stage
  IN StageOrder[i + 1]

\* Line 498 with the comparisons inverted.
UseSlidingWindowInverted(left, right) == left.found = TRUE \/ right.found = TRUE

\* Line 498.
UseSlidingWindow(left, right) == left.found = FALSE \/ right.found = FALSE

\* Lines 512-513, marking only the left lane as found.
SavedLeftOnly(fit_left, fit_right) ==
  <<[found |-> TRUE, previous_fit |-> fit_left],
    [found |-> FALSE, previous_fit |-> fit_right]>>

\* Lines 512-513, storing the two fits the wrong way round.
SavedSwapped(fit_left, fit_right) ==
  <<[found |-> TRUE, previous_fit |-> fit_right],
    [found |-> TRUE, previous_fit |-> fit_left]>>

\* Lines 512-513.
Saved(fit_left, fit_right) ==
  <<[found |-> TRUE, previous_fit |-> fit_left],
    [found |-> TRUE, previous_fit |-> fit_right]>>

Init ==
  /\ left_line = Line
  /\ right_line = Line
  /\ pc = "idle"
  /\ image = NoImage
  /\ entry = Entry(Line, Line)
  /\ thresholded = NoBinary
  /\ binary_warped = NoBinary
  /\ lanes_detected = NoSearch
  /\ left_fit = NoFit
  /\ right_fit = NoFit
  /\ metrics = NoMetrics
  /\ outcome = Outcome("none", "", "")

\* The exception leaves pipeline(): nothing after the raising statement runs.
Raise(stage, kind) ==
  /\ pc' = "idle"
  /\ outcome' = Outcome("raised", stage, kind)

\* pipeline(image) is called with the next frame; line 488 undistorts it.
Undistort(img) ==
  /\ pc = "idle"
  /\ pc' = StageOrder[1]
  /\ image' = img
  /\ entry' = Entry(left_line, right_line)
  /\ thresholded' = NoBinary
  /\ binary_warped' = NoBinary
  /\ lanes_detected' = NoSearch
  /\ left_fit' = NoFit
  /\ right_fit' = NoFit
  /\ metrics' = NoMetrics
  /\ outcome' = Outcome("running", "", "")
  /\ UNCHANGED <<left_line, right_line>>

\* Line 491.
CombinedThresh ==
  /\ pc = "threshold"
  /\ thresholded' = combined_thresh(image)
  /\ pc' = NextStage("threshold")
  /\ UNCHANGED <<left_line, right_line, image, entry, binary_warped,
                 lanes_detected, left_fit, right_fit, metrics, outcome>>

\* Line 494.
PerspectiveTransform ==
  /\ pc = "warp"
  /\ binary_warped' = perspective_transform(thresholded)
  /\ pc' = NextStage("warp")
  /\ UNCHANGED <<left_line, right_line, image, entry, thresholded,
                 lanes_detected, left_fit, right_fit, metrics, outcome>>

\* The lane search has returned or raised.
AfterSearch(strategy, res) ==
  /\ res.raised # "unmodelled"
  /\ lanes_detected' = Searched(strategy, res)
  /\ IF res.raised = ""
       THEN /\ left_fit' = res.left_fit
            /\ right_fit' = res.right_fit
            /\ pc' = NextStage("fit")
            /\ UNCHANGED outcome
       ELSE /\ Raise("fit", res.raised)
            /\ UNCHANGED <<left_fit, right_fit>>
  /\ UNCHANGED <<left_line, right_line, image, entry, thresholded,
                 binary_warped, metrics>>

\* Lines 498-499.
FitPolynomial ==
  /\ pc = "fit"
  /\ UseSlidingWindow(left_line, right_line)
  /\ AfterSearch("sliding", fit_polynomial(binary_warped))

\* Lines 501-502.
SearchAroundPoly ==
  /\ pc = "fit"
  /\ ~UseSlidingWindow(left_line, right_line)
  /\ AfterSearch("prior",
                 search_around_poly(binary_warped, left_line.previous_fit,
                                    right_line.previous_fit))

\* Line 505.
DrawLinesOnImage ==
  /\ pc = "draw"
  /\ pc' = NextStage("draw")
  /\ UNCHANGED <<left_line, right_line, image, entry, thresholded,
                 binary_warped, lanes_detected, left_fit, right_fit, metrics,
                 outcome>>

\* Line 508.
CurvatureInMeters ==
  /\ pc = "curvature"
  /\ metrics' = curvature_in_meters(binary_warped, left_fit, right_fit)
  /\ pc' = NextStage("curvature")
  /\ UNCHANGED <<left_line, right_line, image, entry, thresholded,
                 binary_warped, lanes_detected, left_fit, right_fit, outcome>>

\* Line 509.
PrintDataOnImage ==
  /\ pc = "print"
  /\ pc' = NextStage("print")
  /\ UNCHANGED <<left_line, right_line, image, entry, thresholded,
                 binary_warped, lanes_detected, left_fit, right_fit, metrics,
                 outcome>>

\* Lines 512-513.
SaveFits ==
  /\ pc = "save"
  /\ left_line' = Saved(left_fit, right_fit)[1]
  /\ right_line' = Saved(left_fit, right_fit)[2]
  /\ pc' = NextStage("save")
  /\ UNCHANGED <<image, entry, thresholded, binary_warped, lanes_detected,
                 left_fit, right_fit, metrics, outcome>>

\* Line 516.
Return ==
  /\ pc = "return"
  /\ pc' = "idle"
  /\ outcome' = Outcome("ok", "", "")
  /\ UNCHANGED <<left_line, right_line, image, entry, thresholded,
                 binary_warped, lanes_detected, left_fit, right_fit, metrics>>

\* A call into OpenCV or numpy raises (cv2.error, MemoryError): the exception
\* leaves pipeline() at that statement.
LibraryStages == {"threshold", "warp", "draw", "curvature", "print"}

StageRaises ==
  /\ pc \in LibraryStages
  /\ Raise(pc, "error")
  /\ UNCHANGED <<left_line, right_line, image, entry, thresholded,
                 binary_warped, lanes_detected, left_fit, right_fit, metrics>>

Next ==
  \/ \E img \in Frames : Undistort(img)
  \/ CombinedThresh
  \/ PerspectiveTransform
  \/ FitPolynomial
  \/ SearchAroundPoly
  \/ DrawLinesOnImage
  \/ CurvatureInMeters
  \/ PrintDataOnImage
  \/ SaveFits
  \/ Return
  \/ StageRaises

Spec == Init /\ [][Next]_vars

\* ------------------------------------------------- the curvature functions
\* The two radius computations of the module applied to a lane fit on its
\* own: left_fit holds the fit, metrics.left_curverad the radius returned.
MaxCoefficient == 2

Lines ==
  {[a |-> a, b |-> b, c |-> c, d |-> 1] :
     a \in -MaxCoefficient..MaxCoefficient,
     b \in -MaxCoefficient..MaxCoefficient,
     c \in {0, 350, 950}}

InitRadius ==
  /\ left_line = Line
  /\ right_line = Line
  /\ pc = "line"
  /\ image = NoImage
  /\ entry = Entry(Line, Line)
  /\ thresholded = NoBinary
  /\ binary_warped = Binary(FrameHeight, FrameWidth, {})
  /\ lanes_detected = NoSearch
  /\ left_fit \in Lines
  /\ right_fit = NoFit
  /\ metrics = NoMetrics
  /\ outcome = Outcome("none", "", "")

Returned(computation, radius) ==
  /\ pc' = computation
  /\ metrics' = [metrics EXCEPT !.left_curverad = radius]
  /\ UNCHANGED <<left_line, right_line, image, entry, thresholded,
                 binary_warped, lanes_detected, left_fit, right_fit, outcome>>

\* get_curvature_radius(line, y) at the bottom row of the frame.
GetCurvatureRadius ==
  /\ pc = "line"
  /\ Returned("get_curvature_radius",
              get_curvature_radius(left_fit, binary_warped.h - 1))

\* The radius curvature_in_meters computes for the same line.
CurvatureRadiusInMeters ==
  /\ pc = "line"
  /\ Returned("curvature_in_meters", Curverad(left_fit, binary_warped.h))

NextRadius ==
  \/ GetCurvatureRadius
  \/ CurvatureRadiusInMeters

SpecRadius == InitRadius /\ [][NextRadius]_vars

\* --------------------------------------------------------------------- claims
BothFound(left, right) == left.found /\ right.found

\* C1: a frame is searched around the previous fits only if both lanes were
\* Found when the frame started; with a lane NotFound the frame is searched
\* with sliding windows, for both lanes.
C1_PriorOnlyIfBothFound ==
  lanes_detected.strategy # "none" =>
    /\ lanes_detected.strategy = "prior" <=> BothFound(entry.left, entry.right)
    /\ lanes_detected.strategy = "sliding" <=> ~BothFound(entry.left, entry.right)

C1_Witness ==
  /\ lanes_detected.strategy = "prior"
  /\ BothFound(entry.left, entry.right)
  /\ outcome.status = "ok"

\* C2: after the first frame of a session has been processed successfully
\* both lanes are Found and each stored fit is the fit of the pixels that
\* frame's search collected for that lane.
C2_FirstFrameFound ==
  (pc = "idle" /\ outcome.status = "ok" /\ entry = Entry(Line, Line)) =>
    /\ left_line.found /\ right_line.found
    /\ lanes_detected.strategy = "sliding"
    /\ left_line.previous_fit = polyfit(lanes_detected.left).fit
    /\ right_line.previous_fit = polyfit(lanes_detected.right).fit
    /\ left_line.previous_fit.d > 0 /\ right_line.previous_fit.d > 0

C2_Witness ==
  /\ pc = "idle" /\ outcome.status = "ok" /\ entry = Entry(Line, Line)
  /\ left_line.previous_fit # right_line.previous_fit

\* C3: when both lanes are Found and the search around the previous fits
\* cannot fit a lane, the frame is searched again with sliding windows; if
\* that search succeeds the frame does not fail in the fit stage, and both
\* lanes end Found with the sliding-window fits.
C3_FallbackSameFrame ==
  (/\ pc = "idle"
   /\ lanes_detected.strategy # "none"
   /\ BothFound(entry.left, entry.right)
   /\ AroundFails(binary_warped, entry.left.previous_fit,
                  entry.right.previous_fit)) =>
    /\ lanes_detected.strategy = "sliding"
    /\ fit_polynomial(binary_warped).raised = "" =>
         ~(outcome.status = "raised" /\ outcome.stage = "fit")
    /\ outcome.status = "ok" =>
         /\ BothFound(left_line, right_line)
         /\ left_line.previous_fit = fit_polynomial(binary_warped).left_fit
         /\ right_line.previous_fit = fit_polynomial(binary_warped).right_fit

\* C4: a frame that fails leaves both trackers as they were when it started,
\* and the trackers are not written before every other stage has run.
C4_FailureKeepsLaneState ==
  (outcome.status = "raised" \/ pc \notin {"idle", "return"}) =>
    /\ left_line = entry.left
    /\ right_line = entry.right

C4_Witness ==
  /\ outcome.status = "raised"
  /\ outcome.stage \in {"draw", "curvature", "print"}
  /\ left_fit.d > 0
  /\ left_fit # left_line.previous_fit

\* C5: after a frame in which a lane could not be fitted, the next frame is
\* searched with sliding windows.
C5_NextFrameSlidingWindow ==
  (pc = "idle" /\ outcome.status = "raised" /\ outcome.stage = "fit") =>
    UseSlidingWindow(left_line, right_line)

\* C6: a pixel of the combined mask is 1 exactly when the four gradient
\* masks are all 1 there or the hue and saturation masks are both 1 there;
\* so where the gradient masks are nowhere all 1, the combined mask is the
\* hue mask AND the saturation mask.
Covered(img) == UNION {BandPixels(bd) : bd \in img.bands}
GradientCount(img, px) ==
  MaskAt(img, 1, px) + MaskAt(img, 2, px) + MaskAt(img, 3, px)
  + MaskAt(img, 4, px)
ColorCount(img, px) == MaskAt(img, 5, px) + MaskAt(img, 6, px)

C6_CombinedMask ==
  pc = "warp" =>
    /\ thresholded.nonzero \subseteq Covered(image)
    /\ \A px \in Covered(image) :
         px \in thresholded.nonzero <=>
           (GradientCount(image, px) = 4 \/ ColorCount(image, px) = 2)
    /\ (\A px \in Covered(image) : GradientCount(image, px) < 4) =>
         thresholded.nonzero =
           {px \in Covered(image) : MaskAt(image, 5, px) * MaskAt(image, 6, px) = 1}

C6_Witness ==
  /\ pc = "warp"
  /\ image = OverlapFrame
  /\ <<0, 345>> \in thresholded.nonzero
  /\ <<0, 335>> \notin thresholded.nonzero
  /\ <<0, 355>> \notin thresholded.nonzero

\* C7: a lane whose pixel set has fewer than three distinct rows makes the
\* search fail; no fit of such a lane reaches the tracker.
C7_FewRowsRaise ==
  (/\ lanes_detected.strategy # "none"
   /\ \/ Cardinality(Rows(lanes_detected.left)) < 3
      \/ Cardinality(Rows(lanes_detected.right)) < 3) =>
    lanes_detected.raised # ""

\* The states right after a sliding-window search.
SlidingSearched ==
  /\ lanes_detected.strategy = "sliding"
  /\ \/ pc = NextStage("fit")
     \/ (pc = "idle" /\ outcome.status = "raised" /\ outcome.stage = "fit")

\* base is the lowest column of lo..hi-1 whose sum is the largest.
FirstMaximum(pixels, lo, hi, base) ==
  LET top == ColumnSum(pixels, base)
  IN /\ base \in lo..(hi - 1)
     /\ \A c \in lo..(hi - 1) :
          LET n == ColumnSum(pixels, c)
          IN n <= top /\ (c < base => n < top)

FullHeightLine(h, first, last) == {<<y, x>> : y \in 0..(h - 1), x \in first..last}

\* C8: the left base is the lowest column of the left half that attains the
\* largest bottom-half column sum, the right base the lowest such column of
\* the right half; a lone full-height line at columns 300..304 gives the
\* left base 300 and no pixel for the right lane.
C8_HistogramBases ==
  SlidingSearched =>
    LET hist == BottomHalf(binary_warped)
        mid == binary_warped.w \div 2
    IN /\ FirstMaximum(hist, 0, mid, lanes_detected.leftx_base)
       /\ FirstMaximum(hist, mid, binary_warped.w, lanes_detected.rightx_base)
       /\ binary_warped.nonzero = FullHeightLine(binary_warped.h, 300, 304) =>
            /\ lanes_detected.leftx_base = 300
            /\ lanes_detected.right = {}

C8_Witness ==
  /\ SlidingSearched
  /\ binary_warped.nonzero = FullHeightLine(binary_warped.h, 300, 304)
  /\ lanes_detected.leftx_base = 300
  /\ lanes_detected.right = {}
  /\ outcome.kind = "TypeError"

\* The pixels of the i-th window from the bottom (i = 1..9) around centre.
InWindow(bw, i, centre) ==
  LET height == bw.h \div 9
  IN {px \in bw.nonzero :
        /\ px[1] >= bw.h - i * height /\ px[1] < bw.h - (i - 1) * height
        /\ px[2] >= centre - 100 /\ px[2] < centre + 100}

\* The centre after a window that collected the pixels good around centre:
\* more than 50 pixels move it to the integer part of their mean column.
Follows(next, good, centre) ==
  IF Cardinality(good) > 50
    THEN next * Cardinality(good) <= SumX(good)
         /\ SumX(good) < (next + 1) * Cardinality(good)
    ELSE next = centre

\* The same with the mean itself as the new centre.
FollowsExactMean(next, good, centre) ==
  IF Cardinality(good) > 50
    THEN next * Cardinality(good) = SumX(good)
    ELSE next = centre

C10_StraightLaneInfinite ==
  (pc \in {"get_curvature_radius", "curvature_in_meters"} /\ left_fit.a = 0) =>
    metrics.left_curverad.kind = "inf"

\* Half the sum of the two fits at row y: the lane centre there, in pixels.
LaneCentre(y) == RatDiv(RatAdd(Eval(left_fit, y), Eval(right_fit, y)), RatInt(2))

\* The states right after curvature_in_meters has returned.
Measured == pc = NextStage("curvature") /\ outcome.status = "running"

\* C11: the lateral offset is the frame midpoint W // 2 minus the lane centre
\* at the bottom pixel row H - 1, times 3.7/700, rounded to 2 decimals (kept
\* in hundredths); it is 0 for lanes symmetric about 640 in a frame 1280 wide
\* and not negative when the lane centre lies left of the midpoint.
C11_LateralOffset ==
  Measured =>
    LET position == binary_warped.w \div 2
        centre == LaneCentre(binary_warped.h - 1)
    IN /\ metrics.dist_from_center =
            Round2(RatMul(RatSub(RatInt(position), centre), xm_per_pix))
       /\ (binary_warped.w = 1280 /\ centre = RatInt(640)) =>
            metrics.dist_from_center = 0
       /\ RatSub(RatInt(position), centre)[1] > 0 =>
            metrics.dist_from_center >= 0

\* The frame being processed does not have the dimensions of the video.
OtherDimensions ==
  image # NoImage /\ (image.h # FrameHeight \/ image.w # FrameWidth)

\* C12: a frame whose dimensions differ from those of the session is
\* rejected: it is never warped, its processing ends in a raised
\* InvalidFrameDimensions, and it leaves both trackers as they were.
C12_InvalidFrameDimensions ==
  OtherDimensions =>
    /\ binary_warped = NoBinary
    /\ left_line = entry.left /\ right_line = entry.right
    /\ pc = "idle" => outcome.status = "raised"

\* C13: after any sequence of frames the two found flags are equal, a lane
\* that is found has a stored fit, and a search around the previous fits is
\* given a fit for each lane.
C13_FoundFlagsAgree ==
  /\ left_line.found = right_line.found
  /\ left_line.found => left_line.previous_fit # NoFit
  /\ right_line.found => right_line.previous_fit # NoFit
  /\ lanes_detected.strategy = "prior" =>
       /\ entry.left.previous_fit # NoFit
       /\ entry.right.previous_fit # NoFit

\* A failed frame after a successful one: the search around the stored fits
\* has raised and both lanes are still found.
C13_Witness ==
  /\ pc = "idle"
  /\ outcome.status = "raised"
  /\ lanes_detected.strategy = "prior"
  /\ left_line.found /\ right_line.found
  /\ left_line.previous_fit.d > 0 /\ right_line.previous_fit.d > 0

====
